---- MODULE Spec2Model ----
(***************************************************************************)
(* A model of qianji.py: the Card / Player / BluffGame classes of a        *)
(* bluffing card game.  Python lists are sequences, Card objects are       *)
(* records whose id field stands for object identity (Card defines no      *)
(* __eq__, so `in` and list.remove compare by identity), and every public  *)
(* method of BluffGame is one action.  The variables op and ret record the *)
(* method called last and what it returned or raised.                      *)
(***************************************************************************)
EXTENDS Integers, Sequences, FiniteSets, TLC

\* ---------------------------------------------------------------- bounds
\* Seats of a game of the engine specification Spec.
EngineSeats == 2
\* Cards of a game of Spec: the program manufactures 52 per deck, Spec plays
\* with the first EngineDeck cards of the manufacturing order.
EngineDeck == 2
\* Shuffles of Spec: the rotations of the deck by 0..EngineRot cards.
EngineRot == 0
\* Longest card list handed to play_cards.
MaxPlay == 2
\* Cards in all zones together may exceed the deck by this much.
MaxExtra == 1
\* Largest number of names handed to the constructor in SpecDeck.
MaxNames == 11
\* Shuffles of SpecDeck: the rotations of the deck by 0..MaxRot cards.
MaxRot == 2
\* Seats of a game of the command loop specification SpecMain.
MainSeats == 3
\* Cards of a game of SpecMain, the first of the manufacturing order.
MainDeck == 4
\* Shuffles of SpecMain: the rotations of the deck by 0..MainRot cards.
MainRot == 0

\* ------------------------------------------------------------- constants
RANKS == <<"A", "2", "3", "4", "5", "6", "7", "8", "9", "10", "J", "Q", "K">>

\* class Suit, in definition order, by member name
SuitNames == <<"HEARTS", "DIAMONDS", "CLUBS", "SPADES">>

\* declared_rank = None
None == "None"

WAITING_FOR_PLAY == "WAITING_FOR_PLAY"
GAME_OVER == "GAME_OVER"

\* ------------------------------------------------------- list operations
\* Python: x in lst
In(x, lst) == \E i \in DOMAIN lst : lst[i] = x

\* Python: lst.index(x), 1-based here; 0 when x is not in lst (ValueError)
IndexOf(x, lst) ==
    IF In(x, lst) THEN CHOOSE i \in DOMAIN lst :
                            lst[i] = x /\ \A j \in 1..(i - 1) : lst[j] # x
    ELSE 0

\* Python: lst.remove(x), x known to be in lst: the first occurrence goes
ListRemove(lst, x) ==
    LET i == IndexOf(x, lst)
    IN  SubSeq(lst, 1, i - 1) \o SubSeq(lst, i + 1, Len(lst))

\* Number of occurrences of x in lst
Count(x, lst) == Cardinality({i \in DOMAIN lst : lst[i] = x})

\* ------------------------------------------------------------------ Card
Card(i, rank, suit) == [id |-> i, rank |-> rank, suit |-> suit]

\* ---------------------------------------------------------------- Player
NewPlayer == [hand |-> <<>>, played_cards |-> <<>>]

add_cards(p, cards) == [p EXCEPT !.hand = @ \o cards]

RECURSIVE remove_from(_, _)
remove_from(hand, cards) ==
    IF cards = <<>> THEN hand
    ELSE remove_from(IF In(Head(cards), hand) THEN ListRemove(hand, Head(cards))
                     ELSE hand,
                     Tail(cards))

remove_cards(p, cards) == [p EXCEPT !.hand = remove_from(@, cards)]

player_play_cards(p, cards) ==
    [remove_cards(p, cards) EXCEPT !.played_cards = @ \o cards]

clear_played_cards(p) == [p EXCEPT !.played_cards = <<>>]

hand_count(p) == Len(p.hand)

played_count(p) == Len(p.played_cards)

\* Suit.value is the suit's symbol; sort_hand compares the symbols, that is
\* their code points
SuitValue(suit) ==
    CASE suit = "HEARTS" -> 9829
      [] suit = "DIAMONDS" -> 9830
      [] suit = "CLUBS" -> 9827
      [] suit = "SPADES" -> 9824

rank_order(rank) == IndexOf(rank, RANKS)

\* sort_hand's key (rank_order[card.rank], card.suit.value), compared as a pair
KeyLeq(c, d) ==
    \/ rank_order(c.rank) < rank_order(d.rank)
    \/ /\ rank_order(c.rank) = rank_order(d.rank)
       /\ SuitValue(c.suit) <= SuitValue(d.suit)

\* list.sort is stable: a card goes after the cards whose key is not greater
RECURSIVE SortInsert(_, _)
SortInsert(sorted, c) ==
    IF sorted = <<>> THEN <<c>>
    ELSE IF KeyLeq(Head(sorted), c)
         THEN <<Head(sorted)>> \o SortInsert(Tail(sorted), c)
         ELSE <<c>> \o sorted

RECURSIVE SortList(_)
SortList(lst) ==
    IF lst = <<>> THEN <<>>
    ELSE SortInsert(SortList(SubSeq(lst, 1, Len(lst) - 1)), lst[Len(lst)])

sort_hand(p) == [p EXCEPT !.hand = SortList(@)]

\* ------------------------------------------------------------- BluffGame
VARIABLES
    players,               \* self.players: seat (0-based) -> Player
    current_player_index,
    deck,
    community_area,
    discard_area,
    declared_rank,
    last_player_index,
    game_state,
    all_passed,
    first_round,
    num_decks,             \* 0 while unset
    pc,                    \* where the constructor is; "ready" once it returned
    op,                    \* the method called last
    ret                    \* what it returned or raised

vars == <<players, current_player_index, deck, community_area, discard_area,
          declared_rank, last_player_index, game_state, all_passed,
          first_round, num_decks, pc, op, ret>>

\* A return value: val is the value (or the exception raised), msg tells a
\* challenge's three messages apart, seat is the seat of a returned Player
Ret(val, msg, seat) == [val |-> val, msg |-> msg, seat |-> seat]

Returned(val) == Ret(val, "", -1)

NumPlayers == Cardinality(DOMAIN players)

Seats == DOMAIN players

\* Python indexing of self.players: a negative index counts from the end
ValidIndex(i) == i >= -NumPlayers /\ i < NumPlayers

Seat(i) == IF i < 0 THEN i + NumPlayers ELSE i

\* A plausible fault in DecksFor: the one-deck range reaches 7
DecksForMut(n) ==
    IF n >= 2 /\ n <= 7 THEN 1
    ELSE IF n >= 8 /\ n <= 10 THEN 2
    ELSE 0

\* __init__, lines 109-114: the number of decks, 0 for the ValueError
DecksFor(n) ==
    IF n >= 2 /\ n <= 6 THEN 1
    ELSE IF n >= 7 /\ n <= 10 THEN 2
    ELSE 0

\* _initialize_deck: the cards its three loops append
DeckLen(nd) == nd * Len(SuitNames) * Len(RANKS)

\* _initialize_deck before the shuffle: decks, then suits, then ranks
NewDeck(nd) ==
    [i \in 1..DeckLen(nd) |->
        Card(i, RANKS[((i - 1) % Len(RANKS)) + 1],
             SuitNames[(((i - 1) \div Len(RANKS)) % Len(SuitNames)) + 1])]

\* A deck rotated by r cards
Rotate(d, r) ==
    IF d = <<>> THEN d
    ELSE SubSeq(d, (r % Len(d)) + 1, Len(d)) \o SubSeq(d, 1, r % Len(d))

\* The orders random.shuffle leaves a deck in, of which the model follows
\* the rotations by 0..maxr cards
Shuffles(d, maxr) == {Rotate(d, r) : r \in 0..maxr}

\* _deal_cards: the players after the deal
DealtPlayers(n, d) ==
    LET cards_per_player == Len(d) \div n
    IN  [i \in 0..(n - 1) |->
            sort_hand(add_cards(NewPlayer,
                SubSeq(d, i * cards_per_player + 1, (i + 1) * cards_per_player)))]

\* A plausible fault in RemainingCards: the first card left over is dropped
RemainingCardsMut(n, d) == SubSeq(d, (Len(d) \div n) * n + 2, Len(d))

\* _deal_cards: the cards left over, for the community area
RemainingCards(n, d) == SubSeq(d, (Len(d) \div n) * n + 1, Len(d))

\* The state __init__ leaves for n names, the shuffled deck d and the first
\* player drawn by _determine_first_player
Constructed(n, d, first) ==
    /\ players = DealtPlayers(n, d)
    /\ current_player_index = first
    /\ deck = d
    /\ community_area = RemainingCards(n, d)
    /\ discard_area = <<>>
    /\ declared_rank = None
    /\ last_player_index = -1
    /\ game_state = WAITING_FOR_PLAY
    /\ all_passed = FALSE
    /\ first_round = TRUE
    /\ num_decks = DecksFor(n)
    /\ pc = "ready"
    /\ op = "__init__"
    /\ ret = Returned("None")

\* A game of the engine: EngineSeats seats, the first EngineDeck cards
Init ==
    \E d \in Shuffles(SubSeq(NewDeck(DecksFor(EngineSeats)), 1, EngineDeck),
                      EngineRot) :
        \E first \in 0..(EngineSeats - 1) : Constructed(EngineSeats, d, first)

\* ------------------------------------------------------------ operations
\* The variables a call leaves alone besides those it names
Zones == <<players, community_area, discard_area>>

Flags == <<declared_rank, last_player_index, all_passed, first_round>>

\* pc belongs to the caller of a method: the method leaves it to the caller
Fixed == <<deck, num_decks>>

get_current_player == players[Seat(current_player_index)]

get_next_player_index == (current_player_index + 1) % NumPlayers

\* A plausible fault in OwnsAll: any() for all()
OwnsAllMut(hand, cards) ==
    cards = <<>> \/ \E k \in DOMAIN cards : In(cards[k], hand)

\* all(card in current_player.hand for card in cards)
OwnsAll(hand, cards) == \A k \in DOMAIN cards : In(cards[k], hand)

\* all(rank == declared_rank or rank == 'A' for rank in actual_ranks)
IsValid(cards, declared) ==
    \A k \in DOMAIN cards : cards[k].rank = declared \/ cards[k].rank = "A"

\* RANKS[(RANKS.index(rank) + 1) % len(RANKS)], for a rank of RANKS
NextRank(rank) == RANKS[(((IndexOf(rank, RANKS) - 1) + 1) % Len(RANKS)) + 1]

\* lines 177-185: the current player after the old played cards have left
\* for the community area and the new ones are laid down
PlayerAfterPlay(p, cards) ==
    player_play_cards(IF p.played_cards # <<>> THEN clear_played_cards(p) ELSE p,
                      cards)

\* lines 177-182: the community area after a play by player p
CommunityAfterPlay(p) ==
    IF p.played_cards # <<>> THEN community_area \o p.played_cards
    ELSE community_area

play_cards(cards, rank) ==
    LET current_player == get_current_player
    IN  /\ op' = "play_cards"
        /\ IF ~OwnsAll(current_player.hand, cards)
           THEN /\ ret' = Returned("False")
                /\ UNCHANGED <<Zones, Flags, Fixed, current_player_index,
                               game_state>>
           ELSE /\ community_area' = CommunityAfterPlay(current_player)
                /\ players' = [players EXCEPT ![Seat(current_player_index)] =
                                   PlayerAfterPlay(current_player, cards)]
                /\ declared_rank' = rank
                /\ last_player_index' = current_player_index
                /\ all_passed' = FALSE
                /\ first_round' = FALSE
                /\ ret' = Returned("True")
                /\ UNCHANGED <<discard_area, Fixed, current_player_index,
                               game_state>>

\* A plausible fault in PlayersAfterGenuine: the community cards are not handed over
PlayersAfterGenuineMut(c, t) ==
    LET p2 == [players EXCEPT ![c] = add_cards(@, players[t].played_cards)]
    IN  [p2 EXCEPT ![t] = clear_played_cards(@)]

\* lines 215-218 and 225: the players after a challenge that found the
\* target's cards genuine
PlayersAfterGenuine(c, t) ==
    LET p1 == [players EXCEPT ![c] = add_cards(@, community_area)]
        p2 == [p1 EXCEPT ![c] = add_cards(@, p1[t].played_cards)]
    IN  [p2 EXCEPT ![t] = clear_played_cards(@)]

\* A plausible fault in PlayersAfterFake: the played area is cleared before the cards
\* are taken back
PlayersAfterFakeMut(t) ==
    LET p1 == [players EXCEPT ![t] = clear_played_cards(@)]
    IN  [p1 EXCEPT ![t] = add_cards(@, @.played_cards)]

\* lines 233-236: the players after a challenge that found them fake
PlayersAfterFake(t) ==
    LET p1 == [players EXCEPT ![t] = add_cards(@, @.played_cards)]
    IN  [p1 EXCEPT ![t] = clear_played_cards(@)]

\* line 228: the index handed in becomes the current player index
IndexAfterGenuine(challenger_index) == challenger_index

\* A plausible fault in challenge: the test for an empty played area is
\* missing
challengeMut(challenger_index, target_player_index) ==
    /\ op' = "challenge"
    /\ IF ~ValidIndex(challenger_index) \/ ~ValidIndex(target_player_index)
       THEN /\ ret' = Returned("IndexError")
            /\ UNCHANGED <<Zones, Flags, Fixed, current_player_index, game_state>>
       ELSE LET c == Seat(challenger_index)
                t == Seat(target_player_index)
            IN  IF IsValid(players[t].played_cards, declared_rank)
                THEN /\ players' = PlayersAfterGenuine(c, t)
                     /\ community_area' = <<>>
                     /\ current_player_index' = IndexAfterGenuine(challenger_index)
                     /\ ret' = Ret("True", "cards_genuine", -1)
                     /\ UNCHANGED <<discard_area, Flags, Fixed, game_state>>
                ELSE /\ players' = PlayersAfterFake(t)
                     /\ ret' = Ret("False", "cards_fake", -1)
                     /\ UNCHANGED <<community_area, discard_area, Flags, Fixed,
                                    current_player_index, game_state>>

challenge(challenger_index, target_player_index) ==
    /\ op' = "challenge"
    /\ IF ~ValidIndex(challenger_index) \/ ~ValidIndex(target_player_index)
       THEN /\ ret' = Returned("IndexError")
            /\ UNCHANGED <<Zones, Flags, Fixed, current_player_index, game_state>>
       ELSE LET c == Seat(challenger_index)
                t == Seat(target_player_index)
            IN  IF players[t].played_cards = <<>>
                THEN /\ ret' = Ret("False", "no_played_cards", -1)
                     /\ UNCHANGED <<Zones, Flags, Fixed, current_player_index,
                                    game_state>>
                ELSE IF IsValid(players[t].played_cards, declared_rank)
                THEN /\ players' = PlayersAfterGenuine(c, t)
                     /\ community_area' = <<>>
                     /\ current_player_index' = IndexAfterGenuine(challenger_index)
                     /\ ret' = Ret("True", "cards_genuine", -1)
                     /\ UNCHANGED <<discard_area, Flags, Fixed, game_state>>
                ELSE /\ players' = PlayersAfterFake(t)
                     /\ ret' = Ret("False", "cards_fake", -1)
                     /\ UNCHANGED <<community_area, discard_area, Flags, Fixed,
                                    current_player_index, game_state>>

pass_turn(player_index) ==
    /\ op' = "pass_turn"
    /\ IF ~ValidIndex(player_index)
       THEN /\ ret' = Returned("IndexError")
            /\ UNCHANGED all_passed
       ELSE /\ all_passed' = (IF ~all_passed THEN TRUE ELSE all_passed)
            /\ ret' = Returned("str")
    /\ UNCHANGED <<Zones, Fixed, declared_rank, last_player_index, first_round,
                   current_player_index, game_state>>

check_all_passed == all_passed

\* lines 270-274: the played cards of players i, i+1, ... in seat order
RECURSIVE PlayedFrom(_)
PlayedFrom(i) ==
    IF i >= NumPlayers THEN <<>>
    ELSE players[i].played_cards \o PlayedFrom(i + 1)

\* A plausible fault in DiscardAfterAllPassed: the discard area is assigned
\* instead of extended
DiscardAfterAllPassedMut == PlayedFrom(0) \o community_area

\* lines 268-279: the discard area once every played area and the
\* community area have been moved to it
DiscardAfterAllPassed == discard_area \o PlayedFrom(0) \o community_area

\* lines 284-285
IndexAfterAllPassed ==
    IF last_player_index # -1 THEN last_player_index ELSE current_player_index

handle_all_passed ==
    /\ op' = "handle_all_passed"
    /\ discard_area' = DiscardAfterAllPassed
    /\ players' = [i \in Seats |-> clear_played_cards(players[i])]
    /\ community_area' = <<>>
    /\ current_player_index' = IndexAfterAllPassed
    /\ IF In(declared_rank, RANKS)
       THEN /\ declared_rank' = NextRank(declared_rank)
            /\ ret' = Returned("None")
       ELSE \* RANKS.index raises after the zones have been moved
            /\ ret' = Returned("ValueError")
            /\ UNCHANGED declared_rank
    /\ UNCHANGED <<Fixed, last_player_index, all_passed, first_round, game_state>>

\* A plausible fault in Wins: the played cards are not validated
WinsMut(p) ==
    /\ hand_count(p) = 0
    /\ p.played_cards # <<>>

\* lines 296-302: what check_winner asks of a player
Wins(p) ==
    /\ hand_count(p) = 0
    /\ p.played_cards # <<>>
    /\ IsValid(p.played_cards, declared_rank)

\* The first player of the loop that passes the test, -1 when none does
FirstWinner ==
    IF \E i \in Seats : Wins(players[i])
    THEN CHOOSE i \in Seats : Wins(players[i]) /\ \A j \in Seats : j < i => ~Wins(players[j])
    ELSE -1

check_winner ==
    /\ op' = "check_winner"
    /\ IF FirstWinner # -1
       THEN /\ game_state' = GAME_OVER
            /\ ret' = Ret("Player", "", FirstWinner)
       ELSE /\ ret' = Returned("None")
            /\ UNCHANGED game_state
    /\ UNCHANGED <<Zones, Flags, Fixed, current_player_index>>

next_turn ==
    /\ op' = "next_turn"
    /\ current_player_index' = get_next_player_index
    /\ ret' = Returned("None")
    /\ UNCHANGED <<Zones, Flags, Fixed, game_state>>

\* ---------------------------------------------------------------- inputs
\* The card objects of the game
AllCards == {deck[i] : i \in DOMAIN deck}

\* Card lists of up to MaxPlay cards, repeats included
CardLists == UNION {[1..k -> AllCards] : k \in 0..MaxPlay}

\* Declared ranks handed to play_cards: two ranks of get_valid_ranks and a
\* string that is no rank
RankInputs == {"2", "K", "1"}

\* Seat indices handed in: every seat and the first index past the end
SeatInputs == 0..NumPlayers

\* Cards in all zones together
TotalCards ==
    Len(community_area) + Len(discard_area)
    + Len(PlayedFrom(0))
    + (LET RECURSIVE HandsFrom(_)
           HandsFrom(i) == IF i >= NumPlayers THEN 0
                           ELSE Len(players[i].hand) + HandsFrom(i + 1)
       IN  HandsFrom(0))

\* A play that names a held card k times adds k - 1 cards to the zones; the
\* model follows that up to MaxExtra cards above the deck
WithinBound(cards) ==
    LET hand == get_current_player.hand
    IN  OwnsAll(hand, cards) =>
            TotalCards + Len(cards) - (Len(hand) - Len(remove_from(hand, cards)))
                <= Len(deck) + MaxExtra

PlayCards == \E cards \in CardLists, rank \in RankInputs :
                 WithinBound(cards) /\ play_cards(cards, rank) /\ UNCHANGED pc

Challenge == \E c \in SeatInputs, t \in SeatInputs :
                 challenge(c, t) /\ UNCHANGED pc

Pass == \E i \in SeatInputs : pass_turn(i) /\ UNCHANGED pc

ResolveAllPassed == handle_all_passed /\ UNCHANGED pc

CheckWinner == check_winner /\ UNCHANGED pc

NextTurn == next_turn /\ UNCHANGED pc

Next ==
    \/ PlayCards
    \/ Challenge
    \/ Pass
    \/ ResolveAllPassed
    \/ CheckWinner
    \/ NextTurn

Spec == Init /\ [][Next]_vars

\* ----------------------------------------------------------- constructor
\* SpecDeck follows __init__ statement by statement, with the whole deck.
InitDeck ==
    /\ players = <<>>
    /\ current_player_index = 0
    /\ deck = <<>>
    /\ community_area = <<>>
    /\ discard_area = <<>>
    /\ declared_rank = None
    /\ last_player_index = -1
    /\ game_state = WAITING_FOR_PLAY
    /\ all_passed = FALSE
    /\ first_round = TRUE
    /\ num_decks = 0
    /\ pc = "new"
    /\ op = "none"
    /\ ret = Returned("None")

\* lines 97-114: the fields are set, the number of names decides the decks
NewGame(n) ==
    /\ pc = "new"
    /\ players' = [i \in 0..(n - 1) |-> NewPlayer]
    /\ op' = "__init__"
    /\ num_decks' = DecksFor(n)
    /\ IF DecksFor(n) = 0
       THEN pc' = "raised" /\ ret' = Returned("ValueError")
       ELSE pc' = "_initialize_deck" /\ UNCHANGED ret
    /\ UNCHANGED <<current_player_index, deck, community_area, discard_area,
                   declared_rank, last_player_index, game_state, all_passed,
                   first_round>>

\* lines 125-128: one self.deck.append
AppendCard ==
    /\ pc = "_initialize_deck"
    /\ Len(deck) < DeckLen(num_decks)
    /\ deck' = Append(deck, NewDeck(num_decks)[Len(deck) + 1])
    /\ UNCHANGED <<players, current_player_index, community_area, discard_area,
                   declared_rank, last_player_index, game_state, all_passed,
                   first_round, num_decks, pc, op, ret>>

\* line 129: random.shuffle(self.deck)
ShuffleDeck ==
    /\ pc = "_initialize_deck"
    /\ Len(deck) = DeckLen(num_decks)
    /\ deck' \in Shuffles(deck, MaxRot)
    /\ pc' = "_deal_cards"
    /\ UNCHANGED <<players, current_player_index, community_area, discard_area,
                   declared_rank, last_player_index, game_state, all_passed,
                   first_round, num_decks, op, ret>>

\* lines 132-148
DealCards ==
    /\ pc = "_deal_cards"
    /\ players' = DealtPlayers(NumPlayers, deck)
    /\ community_area' = community_area \o RemainingCards(NumPlayers, deck)
    /\ pc' = "_determine_first_player"
    /\ UNCHANGED <<current_player_index, deck, discard_area, declared_rank,
                   last_player_index, game_state, all_passed, first_round,
                   num_decks, op, ret>>

\* lines 120 and 150-155: random.randint(0, len(self.players) - 1)
DetermineFirstPlayer ==
    /\ pc = "_determine_first_player"
    /\ current_player_index' \in 0..(NumPlayers - 1)
    /\ pc' = "ready"
    /\ UNCHANGED <<players, deck, community_area, discard_area, declared_rank,
                   last_player_index, game_state, all_passed, first_round,
                   num_decks, op, ret>>

NextDeck ==
    \/ \E n \in 0..MaxNames : NewGame(n)
    \/ AppendCard
    \/ ShuffleDeck
    \/ DealCards
    \/ DetermineFirstPlayer

SpecDeck == InitDeck /\ [][NextDeck]_vars

\* ================================================================ claims
\* Occurrences of card c in all zones together
ZoneCount(c) ==
    LET RECURSIVE PlayerCount(_)
        PlayerCount(i) ==
            IF i >= NumPlayers THEN 0
            ELSE Count(c, players[i].hand) + Count(c, players[i].played_cards)
                 + PlayerCount(i + 1)
    IN  Count(c, community_area) + Count(c, discard_area) + PlayerCount(0)

\* Cards of the deck with rank r and suit s
PairCount(r, s) ==
    Cardinality({i \in DOMAIN deck : deck[i].rank = r /\ deck[i].suit = s})

RankSet == {RANKS[i] : i \in DOMAIN RANKS}

SuitSet == {SuitNames[i] : i \in DOMAIN SuitNames}

\* _initialize_deck has returned
DeckManufactured == pc \in {"_deal_cards", "_determine_first_player", "ready"}

\* C10 (deck sizing): with 2 to 6 names the constructor manufactures exactly
\* 52 cards, each rank/suit pair once; with 7 to 10 names exactly 104, each
\* pair twice; the cards are distinct objects; with any other number of
\* names (0, 1, 11) it raises ValueError before a card is made, and it
\* raises for no number of names in 2..10.
C10_DeckSizing ==
    /\ (DeckManufactured /\ NumPlayers \in 2..6) =>
          /\ Len(deck) = 52
          /\ \A r \in RankSet, s \in SuitSet : PairCount(r, s) = 1
    /\ (DeckManufactured /\ NumPlayers \in 7..10) =>
          /\ Len(deck) = 104
          /\ \A r \in RankSet, s \in SuitSet : PairCount(r, s) = 2
    /\ DeckManufactured =>
          Cardinality({deck[i].id : i \in DOMAIN deck}) = Len(deck)
    /\ (pc # "new" /\ NumPlayers \notin 2..10) =>
          pc = "raised" /\ ret.val = "ValueError" /\ deck = <<>>
    /\ pc = "raised" => NumPlayers \notin 2..10

\* C10 witness: a two-deck game has been constructed for 7 names
C10_Witness ==
    pc = "ready" /\ NumPlayers = 7 /\ Len(deck) = 104 /\ ret.val = "None"

\* C1 (conservation): in every state of an engine game the zones (hands,
\* played areas, community area, discard area) hold each card object of the
\* manufactured deck exactly once and nothing else.
C1_Conservation ==
    pc = "ready" =>
        /\ \A c \in AllCards : ZoneCount(c) = Count(c, deck)
        /\ TotalCards = Len(deck)

\* Card c is one of the cards of list lst (by identity)
Holds(lst, c) == \E j \in DOMAIN lst : lst[j].id = c.id

\* The state a rejected call must leave alone
EngineState ==
    <<players, community_area, discard_area, declared_rank, last_player_index,
      all_passed, first_round, current_player_index>>

\* C2 (play rejection is non-mutating): a play_cards call whose card list
\* holds a card that is not in the current player's hand returns False, and a
\* play_cards call that returns False leaves every hand, played area, the
\* community and discard areas, declared_rank, last_player_index, all_passed,
\* first_round and current_player_index as they were.  (play_cards returns
\* True or False; the cards of an accepted call are the played area it
\* leaves, so the first part reads: an accepted call laid down only cards
\* that were in the hand.)
C2_PlayRejection ==
    [][op' = "play_cards" =>
          /\ ret'.val \in {"True", "False"}
          /\ ret'.val = "True" =>
                LET cards == players'[Seat(current_player_index)].played_cards
                IN  \A k \in DOMAIN cards : Holds(get_current_player.hand, cards[k])
          /\ ret'.val = "False" => UNCHANGED EngineState
      ]_vars

\* C2 witness: a play was rejected in the middle of a round (cards lie in a
\* played area and a rank is declared)
C2_Witness ==
    /\ op = "play_cards" /\ ret.val = "False"
    /\ declared_rank # None
    /\ \E i \in Seats : players[i].played_cards # <<>>

\* C3 (successful play): when every requested card is in the current player's
\* hand, play_cards returns True, appends the player's old played cards to the
\* community area, moves exactly the requested cards from the hand to the
\* played area (which then holds only them), sets declared_rank,
\* last_player_index, all_passed = False, first_round = False, and leaves the
\* current player index, the other players and the discard area alone.
C3_PlayEffect ==
    [][\A cards \in CardLists, rank \in RankInputs :
          (/\ play_cards(cards, rank)
           /\ \A k \in DOMAIN cards : Holds(get_current_player.hand, cards[k]))
          => LET cur == Seat(current_player_index)
                 p == players[cur]
             IN  /\ ret'.val = "True"
                 /\ community_area' = community_area \o p.played_cards
                 /\ players'[cur].played_cards = cards
                 /\ \A c \in AllCards :
                       Count(c, players'[cur].hand)
                           = Count(c, p.hand) - Count(c, cards)
                 /\ declared_rank' = rank
                 /\ last_player_index' = current_player_index
                 /\ all_passed' = FALSE
                 /\ first_round' = FALSE
                 /\ \A i \in Seats \ {cur} : players'[i] = players[i]
                 /\ UNCHANGED <<current_player_index, discard_area>>
      ]_vars

\* Every card of lst has rank r or rank A
Truthful(lst, r) == \A j \in DOMAIN lst : lst[j].rank \in {r, "A"}

AllPlayed ==
    LET RECURSIVE From(_)
        From(i) == IF i >= NumPlayers THEN <<>>
                   ELSE players[i].played_cards \o From(i + 1)
    IN  From(0)

\* C6 (round exhaustion): in any state, handle_all_passed appends every
\* played area and the community area to the discard area (which grows by
\* exactly their number of cards), empties them, leaves the hands alone, sets
\* the current player index to last_player_index and declared_rank to the
\* next rank of A,2,...,10,J,Q,K, K advancing to A.
C6_RoundExhaustion ==
    [][op' = "handle_all_passed" =>
          /\ discard_area' = discard_area \o AllPlayed \o community_area
          /\ community_area' = <<>>
          /\ \A i \in Seats : /\ players'[i].played_cards = <<>>
                              /\ players'[i].hand = players[i].hand
          /\ current_player_index' = last_player_index
          /\ \E k \in DOMAIN RANKS :
                /\ RANKS[k] = declared_rank
                /\ declared_rank' = RANKS[(k % 13) + 1]
      ]_vars

\* Player i has an empty hand and a non-empty played area whose cards all
\* have the declared rank or rank A
Qualifies(i) ==
    /\ players[i].hand = <<>>
    /\ players[i].played_cards # <<>>
    /\ Truthful(players[i].played_cards, declared_rank)

\* C7 (win detection) as claimed: check_winner reports player i if and only
\* if i has an empty hand and a non-empty played area of valid cards; when no
\* player has, it reports nobody and game_state is left alone; when it
\* reports a winner game_state is GAME_OVER.
C7_WinDetection ==
    [][op' = "check_winner" =>
          /\ \A i \in Seats :
                (ret'.val = "Player" /\ ret'.seat = i) <=> Qualifies(i)
          /\ (~\E i \in Seats : Qualifies(i)) =>
                ret'.val = "None" /\ game_state' = game_state
          /\ ret'.val = "Player" => game_state' = GAME_OVER
      ]_vars

\* C7 as amended: check_winner reports the first player in seat order who
\* has an empty hand and a non-empty played area of valid cards, so it
\* reports a winner if and only if some player has; when no player has, it
\* reports nobody and game_state is left alone; when it reports a winner
\* game_state is GAME_OVER.
C7_WinDetectionFirst ==
    [][op' = "check_winner" =>
          /\ ret'.val \in {"Player", "None"}
          /\ ret'.val = "Player" <=> \E i \in Seats : Qualifies(i)
          /\ ret'.val = "Player" =>
                /\ ret'.seat \in Seats
                /\ Qualifies(ret'.seat)
                /\ \A j \in Seats : j < ret'.seat => ~Qualifies(j)
                /\ game_state' = GAME_OVER
          /\ ret'.val = "None" => game_state' = game_state
      ]_vars

\* C7 witness: two players qualify at once and check_winner has reported
\* the first of them
C7_Witness ==
    /\ op = "check_winner" /\ ret.val = "Player" /\ game_state = GAME_OVER
    /\ Qualifies(ret.seat)
    /\ \E j \in Seats : j # ret.seat /\ Qualifies(j)

\* The call named by op failed: it returned its failure value or raised
Failed ==
    \/ ret.val \in {"IndexError", "ValueError"}
    \/ op = "play_cards" /\ ret.val = "False"
    \/ op = "challenge" /\ ret.msg = "no_played_cards"

\* C8 (atomic on failure): when play_cards, challenge, pass_turn,
\* handle_all_passed, check_winner or next_turn fails (returns its failure
\* value or raises), all hands, played areas, the community area and the
\* discard area are as they were before the call; handle_all_passed with
\* declared_rank unset or no rank of RANKS included.
C8_AtomicOnFailure ==
    [][(op' # "__init__" /\ Failed') => UNCHANGED Zones]_vars

\* ---------------------------------------------------------- Player alone
\* SpecPlayer calls the methods of the Player objects of a dealt game
\* directly, with any card list.
PlayerCall(name, i, p) ==
    /\ op' = name
    /\ players' = [players EXCEPT ![i] = p]
    /\ ret' = Returned("None")
    /\ UNCHANGED <<current_player_index, deck, community_area, discard_area,
                   declared_rank, last_player_index, game_state, all_passed,
                   first_round, num_decks, pc>>

\* The calls are followed while the zones hold at most MaxExtra cards more
\* than the deck
Fits(cards) == TotalCards + Len(cards) <= Len(deck) + MaxExtra

PlayerPlayCards(i, cards) ==
    PlayerCall("Player.play_cards", i, player_play_cards(players[i], cards))

PlayerRemoveCards(i, cards) ==
    PlayerCall("Player.remove_cards", i, remove_cards(players[i], cards))

PlayerAddCards(i, cards) ==
    PlayerCall("Player.add_cards", i, add_cards(players[i], cards))

PlayerClearPlayedCards(i) ==
    PlayerCall("Player.clear_played_cards", i, clear_played_cards(players[i]))

DoPlayCards ==
    \E i \in Seats, cards \in CardLists : Fits(cards) /\ PlayerPlayCards(i, cards)

DoRemoveCards ==
    \E i \in Seats, cards \in CardLists : PlayerRemoveCards(i, cards)

DoAddCards ==
    \E i \in Seats, cards \in CardLists : Fits(cards) /\ PlayerAddCards(i, cards)

DoClearPlayedCards == \E i \in Seats : PlayerClearPlayedCards(i)

NextPlayer ==
    \/ DoPlayCards
    \/ DoRemoveCards
    \/ DoAddCards
    \/ DoClearPlayedCards

SpecPlayer == Init /\ [][NextPlayer]_vars

\* Card list cards can be taken from hand, one occurrence per requested card
Covers(hand, cards) ==
    \A k \in DOMAIN cards : Count(cards[k], cards) <= Count(cards[k], hand)

\* C9 (Player.play_cards is atomic, one occurrence per request): when some
\* requested card has no occurrence left in the hand, Player.play_cards fails
\* with CardNotOwned and leaves hand and played area alone; otherwise it
\* removes one occurrence per requested card from the hand and appends the
\* requested cards to the played area, so len(hand) + len(played_cards) is
\* preserved.
C9_PlayerPlayAtomic ==
    [][\A i \in Seats, cards \in CardLists :
          PlayerPlayCards(i, cards) =>
              IF Covers(players[i].hand, cards)
              THEN /\ \A c \in AllCards :
                         Count(c, players'[i].hand)
                             = Count(c, players[i].hand) - Count(c, cards)
                   /\ players'[i].played_cards = players[i].played_cards \o cards
                   /\ Len(players'[i].hand) + Len(players'[i].played_cards)
                          = Len(players[i].hand) + Len(players[i].played_cards)
              ELSE /\ ret'.val = "CardNotOwned"
                   /\ players'[i] = players[i]
      ]_vars

\* ------------------------------------------------- claims C11 and later
\* C11 (distribution at construction): once the constructor has returned a
\* game for n names (n in 2..10), whatever the shuffle, each hand holds
\* floor(total / n) cards, the community area holds the total mod n cards
\* left over, the discard area and all played areas are empty, declared_rank
\* is unset, all_passed is false, first_round is true, and the current
\* player index is in 0..n-1.
C11_Distribution ==
    pc = "ready" =>
        /\ NumPlayers \in 2..10
        /\ \A i \in Seats : Len(players[i].hand) = Len(deck) \div NumPlayers
        /\ Len(community_area) = Len(deck) % NumPlayers
        /\ discard_area = <<>>
        /\ \A i \in Seats : players[i].played_cards = <<>>
        /\ declared_rank = None
        /\ all_passed = FALSE
        /\ first_round = TRUE
        /\ current_player_index \in 0..(NumPlayers - 1)

\* C11 witness: a game for 7 names has been dealt from a shuffled deck, 14
\* cards a hand and 6 cards left over, and the last seat is to act first
C11_Witness ==
    /\ pc = "ready" /\ NumPlayers = 7
    /\ deck[1].id # 1
    /\ Len(players[0].hand) = 14 /\ Len(community_area) = 6
    /\ current_player_index = 6

\* lines 329-331: RANKS[1:], the ranks a play may declare
get_valid_ranks == Tail(RANKS)

\* C12 (invalid declarations are rejected): a play_cards call whose declared
\* rank is not one of the 12 ranks of get_valid_ranks fails (it does not
\* return True) and leaves the zones, declared_rank, last_player_index,
\* all_passed and first_round as they were, so that no play_cards call sets
\* declared_rank to anything but one of those ranks.
C12_InvalidDeclaration ==
    [][/\ \A cards \in CardLists, rank \in RankInputs :
             (play_cards(cards, rank) /\ ~In(rank, get_valid_ranks))
             => /\ ret'.val # "True"
                /\ UNCHANGED <<Zones, Flags>>
       /\ op' = "play_cards" =>
             \/ declared_rank' = declared_rank
             \/ In(declared_rank', get_valid_ranks)
      ]_vars

\* C13 (challenge against an empty played area): for every challenger seat c
\* and target seat t, when t's played area is empty, challenge(c, t) fails
\* (returns False, nothing to challenge) and leaves every hand, every played
\* area, the community and discard areas, the current player index,
\* declared_rank, last_player_index, all_passed and first_round as they were.
C13_ChallengeEmpty ==
    [][op' = "challenge" =>
          \A c \in Seats, t \in Seats :
              (challenge(c, t) /\ players[t].played_cards = <<>>)
              => /\ ret'.val = "False" /\ ret'.msg = "no_played_cards"
                 /\ UNCHANGED EngineState
      ]_vars

\* C13 witness: in the middle of a round (a rank is declared, cards lie in a
\* played area and in the community area) a challenge found its target's
\* played area empty
C13_Witness ==
    /\ op = "challenge" /\ ret.val = "False" /\ ret.msg = "no_played_cards"
    /\ declared_rank # None
    /\ community_area # <<>>
    /\ \E i \in Seats : players[i].played_cards # <<>>
    /\ \E i \in Seats : players[i].played_cards = <<>>

\* C14 (handle_all_passed clears the round flag): in every state reached by
\* a handle_all_passed call that has returned, all_passed is false.
C14_ClearsAllPassed ==
    [][(op' = "handle_all_passed" /\ ret'.val = "None") => all_passed' = FALSE
      ]_vars

\* ---------------------------------------------------------- command loop
\* SpecMain follows the loop of main(): pc is "ready" at the top of the
\* loop, and otherwise names the call main() makes next, with the choice
\* (1 play, 2 challenge, 3 pass) the player made in this round of the loop.
InitMain ==
    \E d \in Shuffles(SubSeq(NewDeck(DecksFor(MainSeats)), 1, MainDeck),
                      MainRot) :
        \E first \in 0..(MainSeats - 1) : Constructed(MainSeats, d, first)

\* line 368: while game.game_state != GameState.GAME_OVER
AtLoopTop == pc = "ready" /\ game_state # GAME_OVER

\* lines 374-387: the choices offered; only a play while no rank is declared
Choices == IF declared_rank # None THEN {1, 2, 3} ELSE {1}

\* The index lists typed in, here as positions of the hand: up to MaxPlay
\* indices, each within the hand (line 405), repeats included
IndexLists(hand) == UNION {[1..k -> DOMAIN hand] : k \in 0..MaxPlay}

\* line 409
cards_to_play(hand, indices) == [k \in DOMAIN indices |-> hand[indices[k]]]

\* lines 390-394: a play chosen with an empty hand
MainSkipTurn ==
    /\ AtLoopTop
    /\ 1 \in Choices
    /\ get_current_player.hand = <<>>
    /\ next_turn
    /\ UNCHANGED pc

\* lines 396-427: a play; the first play of a game declares a rank of
\* get_valid_ranks, later plays repeat game.declared_rank
MainPlay ==
    /\ AtLoopTop
    /\ 1 \in Choices
    /\ get_current_player.hand # <<>>
    /\ \E indices \in IndexLists(get_current_player.hand), rank \in RankInputs :
          LET cards == cards_to_play(get_current_player.hand, indices)
          IN  /\ declared_rank = None => In(rank, get_valid_ranks)
              /\ WithinBound(cards)
              /\ play_cards(cards,
                            IF declared_rank = None THEN rank ELSE declared_rank)
    /\ pc' = IF ret'.val = "True" THEN "check_winner_1" ELSE "ready"

\* lines 433-459: a challenge by the current player of another player who
\* has played cards
MainChallenge ==
    /\ AtLoopTop
    /\ 2 \in Choices
    /\ \E t \in Seats :
          /\ played_count(players[t]) > 0
          /\ t # current_player_index
          /\ challenge(current_player_index, t)
    /\ pc' = "check_winner_2"

\* lines 461-463
MainPass ==
    /\ AtLoopTop
    /\ 3 \in Choices
    /\ pass_turn(current_player_index)
    /\ pc' = "check_all_passed"

\* lines 467-469: if game.check_all_passed(): game.handle_all_passed()
MainCheckAllPassed ==
    /\ pc = "check_all_passed"
    /\ IF check_all_passed
       THEN /\ handle_all_passed
            /\ pc' = IF ret'.val = "ValueError" THEN "raised"
                     ELSE "check_winner_3"
       ELSE /\ pc' = "check_winner_3"
            /\ UNCHANGED <<Zones, Flags, Fixed, current_player_index,
                           game_state, op, ret>>

\* lines 475-480: the winner check; a winner ends the loop
MainCheckWinner ==
    /\ pc \in {"check_winner_1", "check_winner_2", "check_winner_3"}
    /\ check_winner
    /\ pc' = IF ret'.val = "Player" THEN "over"
             ELSE IF pc = "check_winner_1" THEN "next_turn_1"
             ELSE IF pc = "check_winner_3" THEN "next_turn_3"
             ELSE "ready"

\* lines 483-484: if choice != 2: game.next_turn()
MainNextTurn ==
    /\ pc \in {"next_turn_1", "next_turn_3"}
    /\ next_turn
    /\ pc' = "ready"

NextMain ==
    \/ MainSkipTurn
    \/ MainPlay
    \/ MainChallenge
    \/ MainPass
    \/ MainCheckAllPassed
    \/ MainCheckWinner
    \/ MainNextTurn

SpecMain == InitMain /\ [][NextMain]_vars

\* C15 (round-pass completeness): check_all_passed is true only when every
\* seat other than last_player_index has passed since the last successful
\* play.  all_passed is false exactly when no seat has passed since then
\* (only pass_turn sets it, only a successful play_cards clears it), so with
\* three or more seats the pass of one seat in such a state leaves
\* check_all_passed false (and the command loop, which asks
\* check_all_passed next, does not go on to handle_all_passed).
C15_PassCompleteness ==
    [][(/\ NumPlayers >= 3
        /\ op' = "pass_turn" /\ ret'.val = "str"
        /\ ~all_passed)
       => ~check_all_passed'
      ]_vars

\* C16 (played areas are claims under the active rank): in every state, the
\* cards of every non-empty played area were laid down by a play_cards call
\* whose declared rank is the current declared_rank.  A played area keeps
\* the rank it was declared under until it is emptied, so the claim holds
\* before and after a successful play_cards call only if the call leaves
\* declared_rank as it was whenever another player's played area stays
\* non-empty.
C16_ActiveRankClaims ==
    [][(op' = "play_cards" /\ ret'.val = "True") =>
          \A i \in Seats :
              (/\ i # Seat(current_player_index)
               /\ players[i].played_cards # <<>>
               /\ players'[i].played_cards = players[i].played_cards)
              => declared_rank' = declared_rank
      ]_vars

\* C17 (seat to resume after a fully-passed round): in the command loop,
\* when a pass has been followed by handle_all_passed (all_passed was true),
\* the winner check and the turn advance of a round of the loop with choice
\* 3, the player who is current at the top of the loop, the next to act, is
\* last_player_index, the player of the last successful play.
C17_ResumeSeat ==
    [][(pc = "next_turn_3" /\ all_passed /\ pc' = "ready")
       => current_player_index' = last_player_index
      ]_vars

\* C18 (the discard area is a permanent sink): every step leaves the cards
\* of the discard area where they are and at most adds cards behind them, so
\* a card once in the discard area is there in every later state; and only
\* handle_all_passed changes the discard area.
C18_DiscardSink ==
    [][/\ Len(discard_area') >= Len(discard_area)
       /\ \A k \in DOMAIN discard_area : discard_area'[k] = discard_area[k]
       /\ discard_area' # discard_area => op' = "handle_all_passed"
      ]_vars

\* C18 witness: the discard area holds cards of an earlier round and a later
\* challenge has moved cards of the next round
C18_Witness ==
    /\ discard_area # <<>>
    /\ op = "challenge" /\ ret.msg = "cards_genuine"
    /\ \E i \in Seats : Len(players[i].hand) >= 1

\* C19 (the game over state is terminal): once check_winner has found a
\* winner and game_state is GAME_OVER, game_state stays GAME_OVER and no
\* later play_cards, challenge, pass_turn, handle_all_passed or next_turn
\* call changes a hand, a played area, the community area, the discard area,
\* the current player index or declared_rank.
C19_OverTerminal ==
    [][game_state = GAME_OVER =>
          /\ game_state' = GAME_OVER
          /\ UNCHANGED <<Zones, current_player_index, declared_rank>>
      ]_vars

\* ------------------------------------------------------ any seat index
\* SpecSeat calls the engine with seat indices on both sides of 0..n-1:
\* the negative indices Python accepts (-n..-1) and one index out of range
\* at either end.
AnySeatInputs == (-NumPlayers - 1)..NumPlayers

\* Card lists that name no card twice
DistinctLists ==
    {cards \in CardLists :
        \A j \in DOMAIN cards, k \in DOMAIN cards : j # k => cards[j] # cards[k]}

PlayDistinct == \E cards \in DistinctLists, rank \in RankInputs :
                    play_cards(cards, rank) /\ UNCHANGED pc

ChallengeAny == \E c \in AnySeatInputs, t \in AnySeatInputs :
                    challenge(c, t) /\ UNCHANGED pc

PassAny == \E i \in AnySeatInputs : pass_turn(i) /\ UNCHANGED pc

NextSeat ==
    \/ PlayDistinct
    \/ ChallengeAny
    \/ PassAny
    \/ ResolveAllPassed
    \/ CheckWinner
    \/ NextTurn

SpecSeat == Init /\ [][NextSeat]_vars

\* C20 (the current player index is always a seat): current_player_index,
\* in 0..n-1 when the constructor returns, is in 0..n-1 after every step;
\* next_turn sets it to (current_player_index + 1) mod n and changes nothing
\* else; challenge and pass_turn called with an index outside 0..n-1,
\* negative ones included, are rejected (they return neither True nor the
\* message of a pass) and change neither the current player index nor a
\* hand, a played area, the community area or the discard area.
C20_ValidSeat ==
    [][/\ current_player_index' \in 0..(NumPlayers - 1)
       /\ op' = "next_turn" =>
             /\ current_player_index' = (current_player_index + 1) % NumPlayers
             /\ UNCHANGED <<Zones, Flags, game_state>>
       /\ \A c \in AnySeatInputs, t \in AnySeatInputs :
             (/\ challenge(c, t)
              /\ c \notin 0..(NumPlayers - 1) \/ t \notin 0..(NumPlayers - 1))
             => /\ ret'.val # "True"
                /\ UNCHANGED <<Zones, current_player_index>>
       /\ \A i \in AnySeatInputs :
             (pass_turn(i) /\ i \notin 0..(NumPlayers - 1))
             => /\ ret'.val # "str"
                /\ UNCHANGED <<Zones, current_player_index>>
      ]_vars

====
